---- MODULE Spec2Model ----
(***************************************************************************)
(* The notebooks of Entrainment/: three notebooks that configure and run   *)
(* batches of the external simulator (run_Entrainment, and the two         *)
(* notebooks stored in run_Entrainment-KC04.ipynb: Entrainment-KC04 and    *)
(* OSMOSIS-Winter-KC04).  A notebook is executed top to bottom, one        *)
(* statement at a time; the kernel's names (m, cfg, cfgs, labels, sims)    *)
(* are the variables, Python's objects live in `heap`.                     *)
(***************************************************************************)
EXTENDS Integers, Sequences, FiniteSets, TLC

VARIABLES
    done,       \* notebooks already executed in this session
    nb,         \* the notebook being executed
    prog,       \* its statements, Program(nb)
    pc,         \* index of the next statement of prog
    state,      \* "running", "batch" (inside run_batch), "finished", "error"
    err,        \* what raised, "" when nothing did
    m,          \* the Model object: its name, "" before Model(...)
    heap,       \* Python's dict objects: heap[id] is a function key -> value
    cfg,        \* id of the dict `cfg` refers to, 0 when unbound
    cfgs,       \* list of ids
    labels,     \* list of strings; in the plot notebook a dict
    sims,       \* list returned by run_batch, <<>> when unbound
    casenames,  \* plot notebook: list of strings
    colors,     \* plot notebook: dict
    markers,    \* plot notebook: dict
    nkpp,       \* plot notebook: integer
    it,         \* plot notebook: iterations completed of the running for loop
    dataset,    \* plot notebook: dict, case -> variables of the loaded output
    price,      \* plot notebook: the names the Price cell binds
    links,      \* file system: the symbolic links seen or made, link -> target
    task,       \* run_batch: status of each submitted (config, label) pair
    runlog,     \* run_batch: the simulator invocations of this batch, in order
    workdirs    \* file system: working directory -> invocations that used it

\* the names only the plot notebook binds
plotVars == <<casenames, colors, markers, nkpp, it, dataset, price>>

vars == <<done, nb, prog, pc, state, err, m, heap, cfg, cfgs, labels, sims, plotVars,
          links, task, runlog, workdirs>>

-----------------------------------------------------------------------------
(* Values stored in a configuration.  A number is the decimal m * 10^e     *)
(* with m not divisible by 10 (or m = 0, e = 0), so that equal numbers     *)
(* are equal values.                                                       *)

Str(x) == [k |-> "str", s |-> x, m |-> 0, e |-> 0]

RECURSIVE Norm(_, _)
Norm(x, e) ==
    IF x = 0 THEN <<0, 0>>
    ELSE IF x % 10 = 0 THEN Norm(x \div 10, e + 1)
    ELSE <<x, e>>

Num(x, e) == [k |-> "num", s |-> "", m |-> Norm(x, e)[1], e |-> Norm(x, e)[2]]

Bool(b) == [k |-> "bool", s |-> "", m |-> IF b THEN 1 ELSE 0, e |-> 0]

Ref(id) == [k |-> "ref", s |-> "", m |-> id, e |-> 0]

\* the value the simulator wrote for a key in its default configuration
Dflt == [k |-> "dflt", s |-> "", m |-> 0, e |-> 0]

IsRef(v) == v.k = "ref"

RECURSIVE Pow10(_)
Pow10(n) == IF n = 0 THEN 1 ELSE 10 * Pow10(n - 1)

Digit(d) == CASE d = 0 -> "0" [] d = 1 -> "1" [] d = 2 -> "2" [] d = 3 -> "3"
              [] d = 4 -> "4" [] d = 5 -> "5" [] d = 6 -> "6" [] d = 7 -> "7"
              [] d = 8 -> "8" [] d = 9 -> "9"

RECURSIVE Digits(_, _)
\* the last n decimal digits of x, zero padded
Digits(x, n) ==
    IF n = 0 THEN "" ELSE Digits(x \div 10, n - 1) \o Digit(x % 10)

RECURSIVE Decimal(_)
Decimal(x) == IF x < 10 THEN Digit(x) ELSE Decimal(x \div 10) \o Digit(x % 10)

\* x * 10^e scaled to an integer number of 10^-d, rounded half to even
Scaled(v, d) ==
    IF v.e + d >= 0 THEN v.m * Pow10(v.e + d)
    ELSE LET q == Pow10(-(v.e + d))
             a == IF v.m < 0 THEN -v.m ELSE v.m
             lo == a \div q
             r == a % q
             up == IF 2 * r > q \/ (2 * r = q /\ lo % 2 = 1) THEN lo + 1 ELSE lo
         IN  IF v.m < 0 THEN -up ELSE up

\* (mutation of FormatF) '{:.0f}': the decimals are dropped
FormatF_NoDecimals(v, d) == Decimal(Scaled(v, 0))

\* '{:.<d>f}'.format(v)
FormatF(v, d) ==
    LET x == Scaled(v, d)
        a == IF x < 0 THEN -x ELSE x
        sign == IF x < 0 THEN "-" ELSE ""
        frac == IF d = 0 THEN "" ELSE "." \o Digits(a % Pow10(d), d)
    IN  sign \o Decimal(a \div Pow10(d)) \o frac

-----------------------------------------------------------------------------
(* The heap of dict objects.  heap is a sequence: object id i is heap[i],  *)
(* a function from keys to values; a list is an object keyed "0", "1".     *)

EmptyDict == [x \in {} |-> Dflt]

Put(d, key, v) == [x \in DOMAIN d \cup {key} |-> IF x = key THEN v ELSE d[x]]

Alloc(h, d) == Append(h, d)

\* d[key] for a path of keys, from object id; 0 when a key is missing or
\* a value on the way is not a dict (Python raises KeyError / TypeError)
RECURSIVE Walk(_, _, _)
Walk(h, id, path) ==
    IF path = <<>> THEN id
    ELSE IF id = 0 THEN 0
    ELSE LET d == h[id]
             key == Head(path)
         IN  IF key \in DOMAIN d /\ IsRef(d[key])
             THEN Walk(h, d[key].m, Tail(path))
             ELSE 0

Range(s) == {s[i] : i \in DOMAIN s}

Front(s) == SubSeq(s, 1, Len(s) - 1)

Last(s) == s[Len(s)]

\* cfg[p1]...[pn] = v
SetItem(h, root, path, v) ==
    LET id == Walk(h, root, Front(path))
    IN  [h EXCEPT ![id] = Put(h[id], Last(path), v)]

CanSetItem(h, root, path) == root # 0 /\ Walk(h, root, Front(path)) # 0

\* the objects reachable from a set of objects
RECURSIVE Reach(_, _, _)
Reach(h, frontier, seen) ==
    IF frontier = {} THEN seen
    ELSE LET next == {h[i][key].m : <<i, key>> \in
                        {<<i, key>> \in UNION {{i} \X DOMAIN h[i] : i \in frontier} :
                            IsRef(h[i][key])}}
         IN  Reach(h, next \ (seen \cup frontier), seen \cup frontier)

Objects(h, root) == IF root = 0 THEN {} ELSE Reach(h, {root}, {})

\* copy.deepcopy(root): every reachable object is copied once, references
\* among the copies point to copies.  Returns <<heap, id of the copy>>.
DeepCopy(h, root) ==
    LET R == Objects(h, root)
        n == Len(h)
        rank(i) == Cardinality({j \in R : j <= i})
        orig(r) == CHOOSE i \in R : rank(i) = r
        copy(d) == [key \in DOMAIN d |->
                      IF IsRef(d[key]) THEN Ref(n + rank(d[key].m)) ELSE d[key]]
    IN  << [i \in 1..(n + Cardinality(R)) |->
              IF i <= n THEN h[i] ELSE copy(h[orig(i - n)])],
           n + rank(root) >>

\* the value of the object: every path to a non-dict value, with the value
RECURSIVE Flat(_, _)
Flat(h, id) ==
    LET d == h[id]
    IN  UNION {IF IsRef(d[key])
               THEN IF DOMAIN h[d[key].m] = {}
                    THEN {<< <<key>>, Str("{}") >>}
                    ELSE {<< <<key>> \o pv[1], pv[2] >> : pv \in Flat(h, d[key].m)}
               ELSE {<< <<key>>, d[key] >>} : key \in DOMAIN d}

\* cfg[p1]...[pn], Dflt when absent
GetItem(h, root, path) ==
    LET id == Walk(h, root, Front(path))
    IN  IF id # 0 /\ Last(path) \in DOMAIN h[id] THEN h[id][Last(path)] ELSE Dflt

-----------------------------------------------------------------------------
(* Statements.  A notebook is a sequence of statements; each is a record   *)
(* [op, path, v, s, n].                                                    *)

Stmt(op, path, v, s, n) == [op |-> op, path |-> path, v |-> v, s |-> s, n |-> n]

ImportCell == Stmt("import", <<>>, Dflt, "", 0)

\* m = Model(name=..., environ='../gotmtool/.gotm_env.yaml')
NewModel(name) == Stmt("model", <<>>, Dflt, name, 0)

\* for key in m.environ: print(...)
ShowEnviron == Stmt("environ", <<>>, Dflt, "", 0)

\* m.build()
BuildModel == Stmt("build", <<>>, Dflt, "", 0)

\* cfg = m.init_config()
InitCfg == Stmt("init", <<>>, Dflt, "", 0)

\* cfg[path] = v
S(path, v) == Stmt("set", path, v, "", 0)

\* cfg[path] = {}
SDict(path) == Stmt("setdict", path, Dflt, "", 0)

\* cfg[path] = [{}]
SList(path) == Stmt("setlist", path, Dflt, "", 0)

\* cfgs = []
ResetCfgs == Stmt("resetcfgs", <<>>, Dflt, "", 0)

\* labels = []
ResetLabels == Stmt("resetlabels", <<>>, Dflt, "", 0)

\* cfgs.append(copy.deepcopy(cfg))
AppendCfg == Stmt("appendcfg", <<>>, Dflt, "", 0)

\* labels.append(label)
AppendLabel(label) == Stmt("appendlabel", <<>>, Dflt, label, 0)

\* sims = m.run_batch(configs=cfgs, labels=labels, nproc=n)
RunBatch(n) == Stmt("run", <<>>, Dflt, "", n)

\* casenames = [...]
SetCasenames(list) == Stmt("casenames", list, Dflt, "", 0)

\* labels = {...}, colors = {...}, markers = {...}: a dict is the sequence
\* of its <<key, value>> items
SetDict(name, items) == Stmt("dict", items, Dflt, name, 0)

\* nkpp = len(casenames)
SetNkpp == Stmt("nkpp", <<>>, Dflt, "", 0)

\* casenames.append(name)
AppendCase(name) == Stmt("appendcase", <<>>, Dflt, name, 0)

\* d[casenames[i+nkpp]] = value
PutAt(d, i, value) == Stmt("putat", <<value>>, Dflt, d, i)

\* d[casenames[-1]] = value
PutLast(d, value) == Stmt("putlast", <<value>>, Dflt, d, 0)

\* for cn in [...]: if not os.path.islink(...): os.symlink(...)
Symlinks(list) == Stmt("symlink", list, Dflt, "", 0)

\* labels
ShowLabels == Stmt("show", <<>>, Dflt, "", 0)

\* sims = {}
ResetSims == Stmt("resetsims", <<>>, Dflt, "", 0)

\* dataset = {}
ResetDataset == Stmt("resetdataset", <<>>, Dflt, "", 0)

\* for case in casenames: sim = Simulation(...); sims[case] = sim;
\* dataset[case] = sim.load_data()
LoadLoop == Stmt("load", <<>>, Dflt, "", 0)

\* the cell that computes the predicted mixed layer depth
PriceCell == Stmt("price", <<>>, Dflt, "", 0)

\* the cell that plots the figure
FigureCell == Stmt("figure", <<>>, Dflt, "", 0)

-----------------------------------------------------------------------------
(* The keys of the default configuration that m.init_config() returns:     *)
(* the part of the simulator's schema the notebooks write to.              *)

MethodKeys(prefix) ==
    << prefix \o <<"method">>, prefix \o <<"constant_value">>,
       prefix \o <<"file">>, prefix \o <<"column">> >>

Schema ==
    << <<"title">>,
       <<"location", "name">>, <<"location", "latitude">>,
       <<"location", "longitude">>, <<"location", "depth">>,
       <<"time", "start">>, <<"time", "stop">>, <<"time", "dt">>,
       <<"grid", "nlev">>,
       <<"temperature", "method">>, <<"temperature", "file">>,
       <<"temperature", "NN">>, <<"temperature", "two_layer", "t_s">>,
       <<"salinity", "method">>, <<"salinity", "file">>,
       <<"salinity", "constant_value">>,
       <<"surface", "fluxes", "method">> >>
    \o MethodKeys(<<"surface", "fluxes", "heat">>)
    \o MethodKeys(<<"surface", "fluxes", "tx">>)
    \o MethodKeys(<<"surface", "fluxes", "ty">>)
    \o MethodKeys(<<"surface", "swr">>)
    \o MethodKeys(<<"surface", "precip">>)
    \o << <<"waves", "stokes_drift", "us", "method">>,
          <<"waves", "stokes_drift", "vs", "method">>,
          <<"waves", "stokes_drift", "dusdz", "method">>,
          <<"waves", "stokes_drift", "dvsdz", "method">> >>
    \o MethodKeys(<<"waves", "stokes_drift", "exponential", "us0">>)
    \o MethodKeys(<<"waves", "stokes_drift", "exponential", "vs0">>)
    \o MethodKeys(<<"waves", "stokes_drift", "exponential", "ds">>)
    \o << <<"light_extinction", "method">> >>
    \o MethodKeys(<<"light_extinction", "A">>)
    \o MethodKeys(<<"light_extinction", "g1">>)
    \o MethodKeys(<<"light_extinction", "g2">>)
    \o << <<"eq_state", "method">>, <<"eq_state", "form">>,
          <<"eq_state", "linear", "T0">>, <<"eq_state", "linear", "S0">>,
          <<"eq_state", "linear", "dtr0">>, <<"eq_state", "linear", "dsr0">>,
          <<"velocities", "relax", "tau">>,
          <<"turbulence", "turb_method">>, <<"turbulence", "tke_method">>,
          <<"turbulence", "len_scale_method">>,
          <<"turbulence", "scnd", "method">>,
          <<"turbulence", "scnd", "scnd_coeff">>,
          <<"turbulence", "turb_param", "length_lim">>,
          <<"turbulence", "turb_param", "compute_c3">>,
          <<"turbulence", "turb_param", "Ri_st">>,
          <<"turbulence", "turb_param", "compute_kappa">>,
          <<"turbulence", "generic", "gen_m">>,
          <<"turbulence", "generic", "gen_n">>,
          <<"turbulence", "generic", "gen_p">>,
          <<"turbulence", "generic", "cpsi1">>,
          <<"turbulence", "generic", "cpsi2">>,
          <<"turbulence", "generic", "cpsi3minus">>,
          <<"turbulence", "generic", "cpsi3plus">>,
          <<"turbulence", "generic", "sig_kpsi">>,
          <<"turbulence", "generic", "sig_psi">>,
          <<"turbulence", "generic", "gen_d">>,
          <<"turbulence", "generic", "gen_alpha">>,
          <<"turbulence", "generic", "gen_l">>,
          <<"turbulence", "generic", "cpsi4">>,
          <<"turbulence", "my", "e6">>,
          <<"cvmix", "surface_layer", "kpp", "langmuir_method">> >>

\* writes v at path below object id, creating the dicts on the way
RECURSIVE Ensure(_, _, _, _)
Ensure(h, id, path, v) ==
    IF Len(path) = 1 THEN [h EXCEPT ![id] = Put(h[id], path[1], v)]
    ELSE LET key == Head(path)
         IN  IF key \in DOMAIN h[id] /\ IsRef(h[id][key])
             THEN Ensure(h, h[id][key].m, Tail(path), v)
             ELSE LET new == Len(h) + 1
                      h1 == Alloc([h EXCEPT ![id] = Put(h[id], key, Ref(new))],
                                  EmptyDict)
                  IN  Ensure(h1, new, Tail(path), v)

\* (h holds object id, so Len(h) = 0 never holds: the test only makes TLC
\* evaluate h before it recurses)
RECURSIVE EnsureAll(_, _, _)
EnsureAll(h, id, paths) ==
    IF paths = <<>> \/ Len(h) = 0 THEN h
    ELSE EnsureAll(Ensure(h, id, Head(paths), Dflt), id, Tail(paths))

\* the heap after cfg = m.init_config(): a new dict with the default
\* configuration; returns <<heap, id>>
DefaultConfig(h) ==
    << EnsureAll(Alloc(h, EmptyDict), Len(h) + 1, Schema), Len(h) + 1 >>

-----------------------------------------------------------------------------
(* The three notebooks, statement by statement.                            *)

title_Entrainment == "Shear-driven Entrainment"

nlev_Entrainment == 100

title_KC04 == "Shear-driven Entrainment"

\* (mutation of nlev_KC04) the number of interfaces, as in k1_stop = nlev+1
nlev_KC04_Interfaces == nlev_Entrainment + 1

nlev_KC04 == 100

title_OSMOSIS == "OSMOSIS - Winter"

nlev_OSMOSIS == 200

\* os.path.dirname(os.path.dirname(m.environ['gotmdir_data']))+'/OSMOSIS-Winter'
datadir == "gotm/OSMOSIS-Winter"

e6list == << Num(10, -1), Num(40, -1), Num(60, -1), Num(70, -1) >>

c4list == << Num(15, -2), Num(3, -1), Num(555, -3), Num(12, -1) >>

\* run_Entrainment, "Update the configuration"
Setup_Entrainment ==
    << S(<<"title">>, Str(title_Entrainment)),
       S(<<"location", "name">>, Str("equator")),
       S(<<"location", "latitude">>, Num(0, -1)),
       S(<<"location", "longitude">>, Num(0, -1)),
       S(<<"location", "depth">>, Num(300, -1)),
       S(<<"time", "start">>, Str("2005-01-01 00:00:00")),
       S(<<"time", "stop">>, Str("2005-01-01 06:00:00")),
       S(<<"time", "dt">>, Num(10, 0)),
       S(<<"grid", "nlev">>, Num(nlev_Entrainment, 0)),
       SDict(<<"output">>),
       SDict(<<"output", "gotm_out">>),
       S(<<"output", "gotm_out", "use">>, Bool(TRUE)),
       S(<<"output", "gotm_out", "title">>, Str(title_Entrainment)),
       S(<<"output", "gotm_out", "time_unit">>, Str("dt")),
       S(<<"output", "gotm_out", "time_step">>, Num(90, 0)),
       SList(<<"output", "gotm_out", "variables">>),
       S(<<"output", "gotm_out", "variables", "0", "source">>, Str("*")),
       S(<<"output", "gotm_out", "k1_stop">>, Num(nlev_Entrainment + 1, 0)),
       S(<<"output", "gotm_out", "k_stop">>, Num(nlev_Entrainment, 0)),
       S(<<"temperature", "method">>, Str("buoyancy")),
       S(<<"temperature", "two_layer", "t_s">>, Num(200, -1)),
       S(<<"temperature", "NN">>, Num(1, -4)),
       S(<<"salinity", "method">>, Str("constant")),
       S(<<"salinity", "constant_value">>, Num(200, -1)),
       S(<<"surface", "fluxes", "method">>, Str("off")),
       S(<<"surface", "fluxes", "heat", "method">>, Str("constant")),
       S(<<"surface", "fluxes", "heat", "constant_value">>, Num(-10, -13)),
       S(<<"surface", "fluxes", "tx", "method">>, Str("constant")),
       S(<<"surface", "fluxes", "tx", "constant_value">>, Num(1027, -4)),
       S(<<"surface", "fluxes", "ty", "method">>, Str("constant")),
       S(<<"surface", "fluxes", "ty", "constant_value">>, Num(0, -1)),
       S(<<"waves", "stokes_drift", "us", "method">>, Str("exponential")),
       S(<<"waves", "stokes_drift", "vs", "method">>, Str("exponential")),
       S(<<"waves", "stokes_drift", "dusdz", "method">>, Str("us")),
       S(<<"waves", "stokes_drift", "dvsdz", "method">>, Str("vs")),
       S(<<"waves", "stokes_drift", "exponential", "us0", "method">>, Str("constant")),
       S(<<"waves", "stokes_drift", "exponential", "us0", "constant_value">>, Num(2, -1)),
       S(<<"waves", "stokes_drift", "exponential", "vs0", "method">>, Str("constant")),
       S(<<"waves", "stokes_drift", "exponential", "vs0", "constant_value">>, Num(0, -1)),
       S(<<"waves", "stokes_drift", "exponential", "ds", "method">>, Str("constant")),
       S(<<"waves", "stokes_drift", "exponential", "ds", "constant_value">>, Num(50, -1)),
       S(<<"eq_state", "method">>, Str("unesco")),
       S(<<"eq_state", "form">>, Str("full-pot")) >>

\* run_Entrainment, "configure GLS-C01A"
GLS_C01A ==
    << S(<<"turbulence", "turb_method">>, Str("second_order")),
       S(<<"turbulence", "tke_method">>, Str("tke")),
       S(<<"turbulence", "len_scale_method">>, Str("gls")),
       S(<<"turbulence", "scnd", "method">>, Str("weak_eq_kb_eq")),
       S(<<"turbulence", "scnd", "scnd_coeff">>, Str("canuto-a")),
       S(<<"turbulence", "turb_param", "length_lim">>, Str("false")),
       S(<<"turbulence", "turb_param", "compute_c3">>, Str("true")),
       S(<<"turbulence", "turb_param", "Ri_st">>, Num(2, -1)),
       S(<<"turbulence", "generic", "gen_m">>, Num(15, -1)),
       S(<<"turbulence", "generic", "gen_n">>, Num(-10, -1)),
       S(<<"turbulence", "generic", "gen_p">>, Num(30, -1)),
       S(<<"turbulence", "generic", "cpsi1">>, Num(144, -2)),
       S(<<"turbulence", "generic", "cpsi2">>, Num(192, -2)),
       S(<<"turbulence", "generic", "cpsi3minus">>, Num(-63, -2)),
       S(<<"turbulence", "generic", "cpsi3plus">>, Num(10, -1)),
       S(<<"turbulence", "generic", "sig_kpsi">>, Num(10, -1)),
       S(<<"turbulence", "generic", "sig_psi">>, Num(13, -1)),
       AppendCfg,
       AppendLabel("GLS-C01A") >>

\* run_Entrainment, the three KPP variants
KPP_Variants ==
    << S(<<"turbulence", "turb_method">>, Str("cvmix")),
       S(<<"cvmix", "surface_layer", "kpp", "langmuir_method">>, Str("none")),
       AppendCfg,
       AppendLabel("KPP-CVMix"),
       S(<<"cvmix", "surface_layer", "kpp", "langmuir_method">>, Str("lwf16")),
       AppendCfg,
       AppendLabel("KPPLT-VR12"),
       S(<<"cvmix", "surface_layer", "kpp", "langmuir_method">>, Str("lf17")),
       AppendCfg,
       AppendLabel("KPPLT-LF17") >>

\* Entrainment-KC04, "Update the configuration"
Setup_KC04 ==
    << S(<<"title">>, Str(title_KC04)),
       S(<<"location", "name">>, Str("equator")),
       S(<<"location", "latitude">>, Num(0, -1)),
       S(<<"location", "longitude">>, Num(0, -1)),
       S(<<"location", "depth">>, Num(300, -1)),
       S(<<"time", "start">>, Str("2005-01-01 00:00:00")),
       S(<<"time", "stop">>, Str("2005-01-01 06:00:00")),
       S(<<"time", "dt">>, Num(10, 0)),
       S(<<"grid", "nlev">>, Num(nlev_KC04, 0)),
       SDict(<<"output">>),
       SDict(<<"output", "gotm_out">>),
       S(<<"output", "gotm_out", "use">>, Bool(TRUE)),
       S(<<"output", "gotm_out", "title">>, Str(title_KC04)),
       S(<<"output", "gotm_out", "time_unit">>, Str("dt")),
       S(<<"output", "gotm_out", "time_step">>, Num(90, 0)),
       SList(<<"output", "gotm_out", "variables">>),
       S(<<"output", "gotm_out", "variables", "0", "source">>, Str("*")),
       S(<<"output", "gotm_out", "k1_stop">>, Num(nlev_KC04 + 1, 0)),
       S(<<"output", "gotm_out", "k_stop">>, Num(nlev_KC04, 0)),
       S(<<"temperature", "method">>, Str("buoyancy")),
       S(<<"temperature", "two_layer", "t_s">>, Num(200, -1)),
       S(<<"temperature", "NN">>, Num(1, -4)),
       S(<<"salinity", "method">>, Str("constant")),
       S(<<"salinity", "constant_value">>, Num(200, -1)),
       S(<<"surface", "fluxes", "method">>, Str("off")),
       S(<<"surface", "fluxes", "heat", "method">>, Str("constant")),
       S(<<"surface", "fluxes", "heat", "constant_value">>, Num(-10, -13)),
       S(<<"surface", "fluxes", "tx", "method">>, Str("constant")),
       S(<<"surface", "fluxes", "tx", "constant_value">>, Num(1027, -4)),
       S(<<"surface", "fluxes", "ty", "method">>, Str("constant")),
       S(<<"surface", "fluxes", "ty", "constant_value">>, Num(0, -1)),
       S(<<"waves", "stokes_drift", "us", "method">>, Str("exponential")),
       S(<<"waves", "stokes_drift", "vs", "method">>, Str("exponential")),
       S(<<"waves", "stokes_drift", "dusdz", "method">>, Str("us")),
       S(<<"waves", "stokes_drift", "dvsdz", "method">>, Str("vs")),
       S(<<"waves", "stokes_drift", "exponential", "us0", "method">>, Str("constant")),
       S(<<"waves", "stokes_drift", "exponential", "us0", "constant_value">>, Num(2, -1)),
       S(<<"waves", "stokes_drift", "exponential", "vs0", "method">>, Str("constant")),
       S(<<"waves", "stokes_drift", "exponential", "vs0", "constant_value">>, Num(0, -1)),
       S(<<"waves", "stokes_drift", "exponential", "ds", "method">>, Str("constant")),
       S(<<"waves", "stokes_drift", "exponential", "ds", "constant_value">>, Num(50, -1)),
       S(<<"eq_state", "method">>, Str("unesco")),
       S(<<"eq_state", "form">>, Str("full-pot")) >>

\* Entrainment-KC04, "configure KC04-MY"
MY_KC04 ==
    << S(<<"turbulence", "turb_method">>, Str("second_order")),
       S(<<"turbulence", "tke_method">>, Str("mellor_yamada")),
       S(<<"turbulence", "len_scale_method">>, Str("mellor_yamada")),
       S(<<"turbulence", "scnd", "method">>, Str("quasi_eq")),
       S(<<"turbulence", "scnd", "scnd_coeff">>, Str("kantha_clayson")),
       S(<<"turbulence", "turb_param", "length_lim">>, Str("false")),
       S(<<"turbulence", "turb_param", "compute_c3">>, Str("true")),
       S(<<"turbulence", "turb_param", "Ri_st">>, Num(2, -1)),
       S(<<"turbulence", "turb_param", "compute_kappa">>, Str("true")) >>

\* (mutation of E6Body) the snapshot is taken before e6 is assigned
E6Body_SnapshotFirst(e6) ==
    << AppendCfg,
       S(<<"turbulence", "my", "e6">>, e6),
       AppendLabel("KC04-MY-e6-" \o FormatF(e6, 1)) >>

\* Entrainment-KC04, body of "for e6 in e6list"
E6Body(e6) ==
    << S(<<"turbulence", "my", "e6">>, e6),
       AppendCfg,
       AppendLabel("KC04-MY-e6-" \o FormatF(e6, 1)) >>

\* Entrainment-KC04, "configure KC04-k-omega"
KOmega_KC04 ==
    << S(<<"turbulence", "turb_method">>, Str("second_order")),
       S(<<"turbulence", "tke_method">>, Str("tke")),
       S(<<"turbulence", "len_scale_method">>, Str("gls")),
       S(<<"turbulence", "scnd", "method">>, Str("quasi_eq")),
       S(<<"turbulence", "scnd", "scnd_coeff">>, Str("kantha_clayson")),
       S(<<"turbulence", "turb_param", "length_lim">>, Str("false")),
       S(<<"turbulence", "turb_param", "compute_c3">>, Str("true")),
       S(<<"turbulence", "turb_param", "Ri_st">>, Num(2, -1)),
       S(<<"turbulence", "turb_param", "compute_kappa">>, Str("true")),
       S(<<"turbulence", "generic", "gen_m">>, Num(5, -1)),
       S(<<"turbulence", "generic", "gen_n">>, Num(-10, -1)),
       S(<<"turbulence", "generic", "gen_p">>, Num(-10, -1)),
       S(<<"turbulence", "generic", "cpsi1">>, Num(55, -2)),
       S(<<"turbulence", "generic", "cpsi2">>, Num(833, -3)),
       S(<<"turbulence", "generic", "cpsi3minus">>, Num(0, -1)),
       S(<<"turbulence", "generic", "cpsi3plus">>, Num(0, -1)),
       S(<<"turbulence", "generic", "sig_kpsi">>, Num(20, -1)),
       S(<<"turbulence", "generic", "sig_psi">>, Num(20, -1)),
       S(<<"turbulence", "generic", "gen_d">>, Num(-1087, -3)),
       S(<<"turbulence", "generic", "gen_alpha">>, Num(-497, -2)),
       S(<<"turbulence", "generic", "gen_l">>, Num(9, -2)) >>

\* (mutation of C4Body) the label is not appended
C4Body_NoLabel(c4) ==
    << S(<<"turbulence", "generic", "cpsi4">>, c4),
       AppendCfg >>

\* Entrainment-KC04, body of "for c4 in c4list"
C4Body(c4) ==
    << S(<<"turbulence", "generic", "cpsi4">>, c4),
       AppendCfg,
       AppendLabel("KC04-k-omega-c4-" \o FormatF(c4, 3)) >>

\* Entrainment-KC04, "turn off Stokes drift"
StokesOff_KC04 ==
    << S(<<"waves", "stokes_drift", "us", "method">>, Str("off")),
       S(<<"waves", "stokes_drift", "vs", "method">>, Str("off")),
       S(<<"waves", "stokes_drift", "dusdz", "method">>, Str("off")),
       S(<<"waves", "stokes_drift", "dvsdz", "method">>, Str("off")) >>

\* Entrainment-KC04, "configure KC04-MY without Stokes drift"
MY_NS_KC04 ==
    << S(<<"turbulence", "turb_method">>, Str("second_order")),
       S(<<"turbulence", "tke_method">>, Str("mellor_yamada")),
       S(<<"turbulence", "len_scale_method">>, Str("mellor_yamada")),
       S(<<"turbulence", "scnd", "method">>, Str("quasi_eq")),
       S(<<"turbulence", "scnd", "scnd_coeff">>, Str("kantha_clayson")),
       S(<<"turbulence", "turb_param", "length_lim">>, Str("false")),
       S(<<"turbulence", "turb_param", "compute_c3">>, Str("true")),
       S(<<"turbulence", "turb_param", "Ri_st">>, Num(2, -1)),
       S(<<"turbulence", "turb_param", "compute_kappa">>, Str("true")),
       S(<<"turbulence", "my", "e6">>, Num(40, -1)),
       AppendCfg,
       AppendLabel("KC04-MY-NS") >>

\* Entrainment-KC04, "configure KC04-k-omega without Stokes drift"
KOmega_NS_KC04 ==
    << S(<<"turbulence", "turb_method">>, Str("second_order")),
       S(<<"turbulence", "tke_method">>, Str("tke")),
       S(<<"turbulence", "len_scale_method">>, Str("gls")),
       S(<<"turbulence", "scnd", "method">>, Str("quasi_eq")),
       S(<<"turbulence", "scnd", "scnd_coeff">>, Str("kantha_clayson")),
       S(<<"turbulence", "turb_param", "length_lim">>, Str("false")),
       S(<<"turbulence", "turb_param", "compute_c3">>, Str("true")),
       S(<<"turbulence", "turb_param", "Ri_st">>, Num(2, -1)),
       S(<<"turbulence", "turb_param", "compute_kappa">>, Str("true")),
       S(<<"turbulence", "generic", "gen_m">>, Num(5, -1)),
       S(<<"turbulence", "generic", "gen_n">>, Num(-10, -1)),
       S(<<"turbulence", "generic", "gen_p">>, Num(-10, -1)),
       S(<<"turbulence", "generic", "cpsi1">>, Num(55, -2)),
       S(<<"turbulence", "generic", "cpsi2">>, Num(833, -3)),
       S(<<"turbulence", "generic", "cpsi3minus">>, Num(0, -1)),
       S(<<"turbulence", "generic", "cpsi3plus">>, Num(0, -1)),
       S(<<"turbulence", "generic", "sig_kpsi">>, Num(20, -1)),
       S(<<"turbulence", "generic", "sig_psi">>, Num(20, -1)),
       S(<<"turbulence", "generic", "gen_d">>, Num(-1087, -3)),
       S(<<"turbulence", "generic", "gen_alpha">>, Num(-497, -2)),
       S(<<"turbulence", "generic", "gen_l">>, Num(9, -2)),
       S(<<"turbulence", "generic", "cpsi4">>, Num(15, -2)),
       AppendCfg,
       AppendLabel("KC04-k-omega-NS") >>

\* OSMOSIS-Winter-KC04, configuration cell
Setup_OSMOSIS ==
    << S(<<"title">>, Str(title_OSMOSIS)),
       S(<<"location", "name">>, Str("OSMOSIS")),
       S(<<"location", "latitude">>, Num(487, -1)),
       S(<<"location", "longitude">>, Num(-162, -1)),
       S(<<"location", "depth">>, Num(2000, -1)),
       S(<<"time", "start">>, Str("2012-09-22 00:00:00")),
       S(<<"time", "stop">>, Str("2012-12-05 03:00:00")),
       S(<<"time", "dt">>, Num(600, -1)),
       S(<<"grid", "nlev">>, Num(nlev_OSMOSIS, 0)),
       SDict(<<"output">>),
       SDict(<<"output", "gotm_out">>),
       S(<<"output", "gotm_out", "use">>, Bool(TRUE)),
       S(<<"output", "gotm_out", "title">>, Str(title_OSMOSIS)),
       S(<<"output", "gotm_out", "k1_stop">>, Num(nlev_OSMOSIS + 1, 0)),
       S(<<"output", "gotm_out", "k_stop">>, Num(nlev_OSMOSIS, 0)),
       S(<<"output", "gotm_out", "time_unit">>, Str("hour")),
       S(<<"output", "gotm_out", "time_step">>, Num(3, 0)),
       SList(<<"output", "gotm_out", "variables">>),
       S(<<"output", "gotm_out", "variables", "0", "source">>, Str("*")),
       S(<<"temperature", "method">>, Str("file")),
       S(<<"temperature", "file">>, Str(datadir \o "/t_prof.dat")),
       S(<<"salinity", "method">>, Str("file")),
       S(<<"salinity", "file">>, Str(datadir \o "/s_prof.dat")),
       S(<<"surface", "fluxes", "heat", "method">>, Str("file")),
       S(<<"surface", "fluxes", "heat", "file">>, Str(datadir \o "/heat_flux.dat")),
       S(<<"surface", "fluxes", "tx", "method">>, Str("file")),
       S(<<"surface", "fluxes", "tx", "file">>, Str(datadir \o "/momentum_flux.dat")),
       S(<<"surface", "fluxes", "tx", "column">>, Num(1, 0)),
       S(<<"surface", "fluxes", "ty", "method">>, Str("file")),
       S(<<"surface", "fluxes", "ty", "file">>, Str(datadir \o "/momentum_flux.dat")),
       S(<<"surface", "fluxes", "ty", "column">>, Num(2, 0)),
       S(<<"surface", "swr", "method">>, Str("file")),
       S(<<"surface", "swr", "file">>, Str(datadir \o "/swr.dat")),
       S(<<"surface", "precip", "method">>, Str("file")),
       S(<<"surface", "precip", "file">>, Str(datadir \o "/pme.dat")),
       S(<<"waves", "stokes_drift", "us", "method">>, Str("exponential")),
       S(<<"waves", "stokes_drift", "vs", "method">>, Str("exponential")),
       S(<<"waves", "stokes_drift", "dusdz", "method">>, Str("us")),
       S(<<"waves", "stokes_drift", "dvsdz", "method">>, Str("vs")),
       S(<<"waves", "stokes_drift", "exponential", "us0", "method">>, Str("file")),
       S(<<"waves", "stokes_drift", "exponential", "us0", "file">>, Str(datadir \o "/stokes_drift.dat")),
       S(<<"waves", "stokes_drift", "exponential", "us0", "column">>, Num(1, 0)),
       S(<<"waves", "stokes_drift", "exponential", "vs0", "method">>, Str("file")),
       S(<<"waves", "stokes_drift", "exponential", "vs0", "file">>, Str(datadir \o "/stokes_drift.dat")),
       S(<<"waves", "stokes_drift", "exponential", "vs0", "column">>, Num(2, 0)),
       S(<<"waves", "stokes_drift", "exponential", "ds", "method">>, Str("file")),
       S(<<"waves", "stokes_drift", "exponential", "ds", "file">>, Str(datadir \o "/stokes_drift.dat")),
       S(<<"waves", "stokes_drift", "exponential", "ds", "column">>, Num(3, 0)),
       S(<<"light_extinction", "method">>, Str("custom")),
       S(<<"light_extinction", "A", "method">>, Str("constant")),
       S(<<"light_extinction", "A", "constant_value">>, Num(57, -2)),
       S(<<"light_extinction", "g1", "method">>, Str("constant")),
       S(<<"light_extinction", "g1", "constant_value">>, Num(5, -1)),
       S(<<"light_extinction", "g2", "method">>, Str("constant")),
       S(<<"light_extinction", "g2", "constant_value">>, Num(134, -1)),
       S(<<"eq_state", "form">>, Str("linear_custom")),
       S(<<"eq_state", "linear", "T0">>, Num(100, -1)),
       S(<<"eq_state", "linear", "S0">>, Num(350, -1)),
       S(<<"eq_state", "linear", "dtr0">>, Num(-17, -2)),
       S(<<"eq_state", "linear", "dsr0">>, Num(78, -2)),
       S(<<"velocities", "relax", "tau">>, Num(4320000, -1)) >>

\* OSMOSIS-Winter-KC04, "configure KC04-MY"
MY_OSMOSIS ==
    << S(<<"turbulence", "turb_method">>, Str("second_order")),
       S(<<"turbulence", "tke_method">>, Str("mellor_yamada")),
       S(<<"turbulence", "len_scale_method">>, Str("mellor_yamada")),
       S(<<"turbulence", "scnd", "method">>, Str("quasi_eq")),
       S(<<"turbulence", "scnd", "scnd_coeff">>, Str("kantha_clayson")),
       S(<<"turbulence", "turb_param", "length_lim">>, Str("false")),
       S(<<"turbulence", "turb_param", "compute_c3">>, Str("true")),
       S(<<"turbulence", "turb_param", "Ri_st">>, Num(2, -1)),
       S(<<"turbulence", "turb_param", "compute_kappa">>, Str("true")),
       S(<<"turbulence", "my", "e6">>, Num(40, -1)),
       AppendCfg,
       AppendLabel("KC04-MY") >>

\* OSMOSIS-Winter-KC04, "configure KC04-k-omega"
KOmega_OSMOSIS ==
    << S(<<"turbulence", "turb_method">>, Str("second_order")),
       S(<<"turbulence", "tke_method">>, Str("tke")),
       S(<<"turbulence", "len_scale_method">>, Str("gls")),
       S(<<"turbulence", "scnd", "method">>, Str("quasi_eq")),
       S(<<"turbulence", "scnd", "scnd_coeff">>, Str("kantha_clayson")),
       S(<<"turbulence", "turb_param", "length_lim">>, Str("false")),
       S(<<"turbulence", "turb_param", "compute_c3">>, Str("true")),
       S(<<"turbulence", "turb_param", "Ri_st">>, Num(2, -1)),
       S(<<"turbulence", "turb_param", "compute_kappa">>, Str("true")),
       S(<<"turbulence", "generic", "gen_m">>, Num(5, -1)),
       S(<<"turbulence", "generic", "gen_n">>, Num(-10, -1)),
       S(<<"turbulence", "generic", "gen_p">>, Num(-10, -1)),
       S(<<"turbulence", "generic", "cpsi1">>, Num(55, -2)),
       S(<<"turbulence", "generic", "cpsi2">>, Num(833, -3)),
       S(<<"turbulence", "generic", "cpsi3minus">>, Num(0, -1)),
       S(<<"turbulence", "generic", "cpsi3plus">>, Num(0, -1)),
       S(<<"turbulence", "generic", "sig_kpsi">>, Num(20, -1)),
       S(<<"turbulence", "generic", "sig_psi">>, Num(20, -1)),
       S(<<"turbulence", "generic", "gen_d">>, Num(-1087, -3)),
       S(<<"turbulence", "generic", "gen_alpha">>, Num(-497, -2)),
       S(<<"turbulence", "generic", "gen_l">>, Num(9, -2)),
       S(<<"turbulence", "generic", "cpsi4">>, Num(15, -2)),
       AppendCfg,
       AppendLabel("KC04-k-omega") >>

\* OSMOSIS-Winter-KC04, Stokes drift turned off
StokesOff_OSMOSIS ==
    << S(<<"waves", "stokes_drift", "us", "method">>, Str("off")),
       S(<<"waves", "stokes_drift", "vs", "method">>, Str("off")),
       S(<<"waves", "stokes_drift", "dusdz", "method">>, Str("off")),
       S(<<"waves", "stokes_drift", "dvsdz", "method">>, Str("off")) >>

\* OSMOSIS-Winter-KC04, "configure KC04-MY without Stokes drift"
MY_NS_OSMOSIS ==
    << S(<<"turbulence", "turb_method">>, Str("second_order")),
       S(<<"turbulence", "tke_method">>, Str("mellor_yamada")),
       S(<<"turbulence", "len_scale_method">>, Str("mellor_yamada")),
       S(<<"turbulence", "scnd", "method">>, Str("quasi_eq")),
       S(<<"turbulence", "scnd", "scnd_coeff">>, Str("kantha_clayson")),
       S(<<"turbulence", "turb_param", "length_lim">>, Str("false")),
       S(<<"turbulence", "turb_param", "compute_c3">>, Str("true")),
       S(<<"turbulence", "turb_param", "Ri_st">>, Num(2, -1)),
       S(<<"turbulence", "turb_param", "compute_kappa">>, Str("true")),
       S(<<"turbulence", "my", "e6">>, Num(40, -1)),
       AppendCfg,
       AppendLabel("KC04-MY-NS") >>

\* (mutation of KOmega_NS_OSMOSIS) the cell without its three method
\* assignments: the methods of the KC04-MY-NS cell stay
KOmega_NS_OSMOSIS_MethodsKept ==
    SubSeq(KOmega_OSMOSIS, 4, Len(KOmega_OSMOSIS) - 1)
    \o << AppendLabel("KC04-k-omega-NS") >>

\* OSMOSIS-Winter-KC04, "configure KC04-k-omega without Stokes drift"
KOmega_NS_OSMOSIS ==
    << S(<<"turbulence", "turb_method">>, Str("second_order")),
       S(<<"turbulence", "tke_method">>, Str("tke")),
       S(<<"turbulence", "len_scale_method">>, Str("gls")),
       S(<<"turbulence", "scnd", "method">>, Str("quasi_eq")),
       S(<<"turbulence", "scnd", "scnd_coeff">>, Str("kantha_clayson")),
       S(<<"turbulence", "turb_param", "length_lim">>, Str("false")),
       S(<<"turbulence", "turb_param", "compute_c3">>, Str("true")),
       S(<<"turbulence", "turb_param", "Ri_st">>, Num(2, -1)),
       S(<<"turbulence", "turb_param", "compute_kappa">>, Str("true")),
       S(<<"turbulence", "generic", "gen_m">>, Num(5, -1)),
       S(<<"turbulence", "generic", "gen_n">>, Num(-10, -1)),
       S(<<"turbulence", "generic", "gen_p">>, Num(-10, -1)),
       S(<<"turbulence", "generic", "cpsi1">>, Num(55, -2)),
       S(<<"turbulence", "generic", "cpsi2">>, Num(833, -3)),
       S(<<"turbulence", "generic", "cpsi3minus">>, Num(0, -1)),
       S(<<"turbulence", "generic", "cpsi3plus">>, Num(0, -1)),
       S(<<"turbulence", "generic", "sig_kpsi">>, Num(20, -1)),
       S(<<"turbulence", "generic", "sig_psi">>, Num(20, -1)),
       S(<<"turbulence", "generic", "gen_d">>, Num(-1087, -3)),
       S(<<"turbulence", "generic", "gen_alpha">>, Num(-497, -2)),
       S(<<"turbulence", "generic", "gen_l">>, Num(9, -2)),
       S(<<"turbulence", "generic", "cpsi4">>, Num(15, -2)),
       AppendCfg,
       AppendLabel("KC04-k-omega-NS") >>

\* for e6 in e6list: ...
RECURSIVE E6Loop(_)
E6Loop(list) ==
    IF list = <<>> THEN <<>> ELSE E6Body(Head(list)) \o E6Loop(Tail(list))

\* for c4 in c4list: ...
RECURSIVE C4Loop(_)
C4Loop(list) ==
    IF list = <<>> THEN <<>> ELSE C4Body(Head(list)) \o C4Loop(Tail(list))

name_Entrainment == "Entrainment"

name_KC04 == "Entrainment-KC04"

\* (mutation of name_OSMOSIS) the name of the notebook stored before it
name_OSMOSIS_Copied == name_KC04

name_OSMOSIS == "OSMOSIS-Winter-KC04"

nproc_Entrainment == 4

nproc_KC04 == 4

\* (mutation of nproc_OSMOSIS) the pool size of the other notebooks
nproc_OSMOSIS_Copied == nproc_KC04

nproc_OSMOSIS == 2

Program_Entrainment ==
    << ImportCell, NewModel(name_Entrainment), ShowEnviron, BuildModel, InitCfg >>
    \o Setup_Entrainment
    \o << ResetCfgs, ResetLabels >>
    \o GLS_C01A \o KPP_Variants
    \o << RunBatch(nproc_Entrainment) >>

Program_KC04 ==
    << ImportCell, NewModel(name_KC04), ShowEnviron, BuildModel, InitCfg >>
    \o Setup_KC04
    \o << ResetCfgs, ResetLabels >>
    \o MY_KC04 \o E6Loop(e6list) \o KOmega_KC04 \o C4Loop(c4list)
    \o StokesOff_KC04 \o MY_NS_KC04 \o KOmega_NS_KC04
    \o << RunBatch(nproc_KC04) >>

Program_OSMOSIS ==
    << ImportCell, NewModel(name_OSMOSIS), ShowEnviron, BuildModel, InitCfg >>
    \o Setup_OSMOSIS
    \o << ResetCfgs, ResetLabels >>
    \o MY_OSMOSIS \o KOmega_OSMOSIS \o StokesOff_OSMOSIS
    \o MY_NS_OSMOSIS \o KOmega_NS_OSMOSIS
    \o << RunBatch(nproc_OSMOSIS) >>

e6list_plot == << Num(10, -1), Num(40, -1), Num(60, -1), Num(70, -1) >>

\* cmap(ifrac[i]), ifrac = np.linspace(0, 1, len(e6list))
cmap(i) == "rainbow(" \o Decimal(i) \o "/" \o Decimal(Len(e6list_plot) - 1) \o ")"

casedir == "gotm/run/Entrainment-KC04"

\* '../Entrainment', relative to casedir
casedir0 == "gotm/run/Entrainment"

\* (mutation of PlotBody) the body without its markers assignment
PlotBody_NoMarker(i, e6) ==
    << AppendCase("KC04-MY-e6-" \o FormatF(e6, 1)),
       PutAt("labels", i, "$e_6$=" \o FormatF(e6, 1)),
       PutAt("colors", i, cmap(i)) >>

\* plot notebook, body of "for i, e6 in enumerate(e6list)"
PlotBody(i, e6) ==
    << AppendCase("KC04-MY-e6-" \o FormatF(e6, 1)),
       PutAt("labels", i, "$e_6$=" \o FormatF(e6, 1)),
       PutAt("colors", i, cmap(i)),
       PutAt("markers", i, "o") >>

RECURSIVE PlotLoop(_, _)
PlotLoop(i, list) ==
    IF list = <<>> THEN <<>>
    ELSE PlotBody(i, Head(list)) \o PlotLoop(i + 1, Tail(list))

\* plot notebook, the cell that defines the cases
Cases_Plot ==
    << SetCasenames(<<"KPP-CVMix", "KPPLT-LF17">>),
       SetDict("labels", << <<"KPP-CVMix", "KPP-CVMix">>,
                            <<"KPPLT-LF17", "KPPLT-LF17">> >>),
       SetDict("colors", << <<"KPP-CVMix", "k">>, <<"KPPLT-LF17", "gray">> >>),
       SetDict("markers", << <<"KPP-CVMix", "x">>, <<"KPPLT-LF17", "x">> >>),
       SetNkpp >>
    \o PlotLoop(0, e6list_plot)
    \o << AppendCase("KC04-MY-NS"),
          PutLast("labels", "w/o Stokes"),
          PutLast("colors", "k"),
          PutLast("markers", "o"),
          Symlinks(<<"KPP-CVMix", "KPPLT-LF17">>) >>

Program_Plot ==
    << ImportCell >>
    \o Cases_Plot
    \o << ShowLabels, ResetSims, ResetDataset, LoadLoop, PriceCell, FigureCell >>

RunNotebooks == {"run_Entrainment", "run_Entrainment-KC04", "run_OSMOSIS-Winter-KC04"}

Notebooks == RunNotebooks \cup {"plot_Entrainment-KC04-MY"}

Program(n) ==
    CASE n = "run_Entrainment" -> Program_Entrainment
      [] n = "run_Entrainment-KC04" -> Program_KC04
      [] n = "run_OSMOSIS-Winter-KC04" -> Program_OSMOSIS
      [] n = "plot_Entrainment-KC04-MY" -> Program_Plot

-----------------------------------------------------------------------------
(* Execution.  "Run All" executes a notebook's statements top to bottom in  *)
(* a new kernel.  Under Spec a behaviour executes one notebook; under      *)
(* Session the notebooks that run the simulator are executed one after     *)
(* another, each once, in any order, and the run directories on disk       *)
(* outlive the kernels.                                                    *)

\* at most this many simulator invocations of one batch exit non-zero
MaxFailures == 1

Min(a, b) == IF a < b THEN a ELSE b

\* m.environ['gotmdir_run'] + '/' + m.name + '/' + label
WorkDir(name, label) == "gotm/run/" \o name \o "/" \o label

Count(f, x) == IF x \in DOMAIN f THEN f[x] ELSE 0

Init ==
    /\ done = {}
    /\ nb = ""
    /\ prog = <<>>
    /\ pc = 0
    /\ state = "idle"
    /\ err = ""
    /\ m = ""
    /\ heap = <<>>
    /\ cfg = 0
    /\ cfgs = <<>>
    /\ labels = <<>>
    /\ sims = <<>>
    /\ task = <<>>
    /\ runlog = <<>>
    /\ workdirs = [d \in {} |-> 0]
    /\ casenames = <<>>
    /\ colors = <<>>
    /\ markers = <<>>
    /\ nkpp = 0
    /\ it = 0
    /\ dataset = <<>>
    /\ price = [bound |-> FALSE]
    /\ links = <<>>

Over == state \in {"finished", "error"}

\* a new kernel executes notebook n
Restart(n) ==
    /\ done' = done \cup {n}
    /\ nb' = n
    /\ prog' = Program(n)
    /\ pc' = 1
    /\ state' = "running"
    /\ err' = ""
    /\ m' = ""
    /\ heap' = <<>>
    /\ cfg' = 0
    /\ cfgs' = <<>>
    /\ labels' = <<>>
    /\ sims' = <<>>
    /\ task' = <<>>
    /\ runlog' = <<>>
    /\ casenames' = <<>>
    /\ colors' = <<>>
    /\ markers' = <<>>
    /\ nkpp' = 0
    /\ it' = 0
    /\ dataset' = <<>>
    /\ price' = [bound |-> FALSE]
    /\ UNCHANGED <<workdirs, links>>

\* "Run All" on notebook n
Open(n) == state = "idle" /\ Restart(n)

\* "Run All" on another notebook, after the previous one is over
Reopen(n) ==
    /\ Over
    /\ nb \in RunNotebooks
    /\ n \in RunNotebooks \ done
    /\ Restart(n)

\* the statement to execute
Cur == prog[pc]

At(op) == state = "running" /\ Cur.op = op

\* the statement completed: on to the next one, the notebook is finished
\* after its last statement
Advance ==
    /\ pc' = pc + 1
    /\ state' = IF pc = Len(prog) THEN "finished" ELSE "running"
    /\ err' = ""

\* (mutation of Raise) the error is caught and the execution goes on
Raise_Caught(what) ==
    /\ state' = "running"
    /\ err' = what
    /\ pc' = pc + 1

\* the statement raised: the cell stops, and no later cell is run
Raise(what) ==
    /\ state' = "error"
    /\ err' = what
    /\ pc' = pc

Import ==
    /\ At("import")
    /\ Advance
    /\ UNCHANGED <<plotVars, links, done, nb, prog, m, heap, cfg, cfgs, labels, sims, task, runlog, workdirs>>

\* m = Model(name, environ): fails when the environment file is missing
CreateModel ==
    /\ At("model")
    /\ \E envFile \in BOOLEAN :
         IF envFile
         THEN Advance /\ m' = Cur.s
         ELSE Raise("environ") /\ m' = m
    /\ UNCHANGED <<plotVars, links, done, nb, prog, heap, cfg, cfgs, labels, sims, task, runlog, workdirs>>

Environ ==
    /\ At("environ")
    /\ Advance
    /\ UNCHANGED <<plotVars, links, done, nb, prog, m, heap, cfg, cfgs, labels, sims, task, runlog, workdirs>>

\* m.build(): fails when the build step fails
Build ==
    /\ At("build")
    /\ \E built \in BOOLEAN : IF built THEN Advance ELSE Raise("build")
    /\ UNCHANGED <<plotVars, links, done, nb, prog, m, heap, cfg, cfgs, labels, sims, task, runlog, workdirs>>

\* cfg = m.init_config(): runs the simulator to write its default gotm.yaml
InitConfig ==
    /\ At("init")
    /\ \E written \in BOOLEAN :
         IF written
         THEN /\ Advance
              /\ heap' = DefaultConfig(heap)[1]
              /\ cfg' = DefaultConfig(heap)[2]
         ELSE /\ Raise("init_config")
              /\ UNCHANGED <<heap, cfg>>
    /\ UNCHANGED <<plotVars, links, done, nb, prog, m, cfgs, labels, sims, task, runlog, workdirs>>

\* what is assigned: the value, a new {} or a new [{}]
Assigned(h, st) ==
    CASE st.op = "set" -> <<h, st.v>>
      [] st.op = "setdict" -> <<Alloc(h, EmptyDict), Ref(Len(h) + 1)>>
      [] st.op = "setlist" ->
           << Alloc(Alloc(h, EmptyDict), Put(EmptyDict, "0", Ref(Len(h) + 1))),
              Ref(Len(h) + 2) >>

\* cfg[...]...[...] = value
SetField ==
    /\ state = "running" /\ Cur.op \in {"set", "setdict", "setlist"}
    /\ IF CanSetItem(heap, cfg, Cur.path)
       THEN /\ Advance
            /\ heap' = SetItem(Assigned(heap, Cur)[1], cfg, Cur.path,
                               Assigned(heap, Cur)[2])
       ELSE /\ Raise("KeyError")
            /\ heap' = heap
    /\ UNCHANGED <<plotVars, links, done, nb, prog, m, cfg, cfgs, labels, sims, task, runlog, workdirs>>

ClearCfgs ==
    /\ At("resetcfgs")
    /\ Advance
    /\ cfgs' = <<>>
    /\ UNCHANGED <<plotVars, links, done, nb, prog, m, heap, cfg, labels, sims, task, runlog, workdirs>>

ClearLabels ==
    /\ At("resetlabels")
    /\ Advance
    /\ labels' = <<>>
    /\ UNCHANGED <<plotVars, links, done, nb, prog, m, heap, cfg, cfgs, sims, task, runlog, workdirs>>

\* (mutation of Snapshot) copy.copy(cfg): a new top-level dict whose values
\* are the same objects
Snapshot_Shallow(h, root) == <<Alloc(h, h[root]), Len(h) + 1>>

\* (mutation of Snapshot) cfgs.append(cfg): no copy
Snapshot_Alias(h, root) == <<h, root>>

\* copy.deepcopy(cfg)
Snapshot(h, root) == DeepCopy(h, root)

\* cfgs.append(copy.deepcopy(cfg))
AppendConfig ==
    /\ At("appendcfg")
    /\ Advance
    /\ heap' = Snapshot(heap, cfg)[1]
    /\ cfgs' = Append(cfgs, Snapshot(heap, cfg)[2])
    /\ UNCHANGED <<plotVars, links, done, nb, prog, m, cfg, labels, sims, task, runlog, workdirs>>

\* labels.append(label)
AppendLbl ==
    /\ At("appendlabel")
    /\ Advance
    /\ labels' = Append(labels, Cur.s)
    /\ UNCHANGED <<plotVars, links, done, nb, prog, m, heap, cfg, cfgs, sims, task, runlog, workdirs>>

-----------------------------------------------------------------------------
(* The plot notebook.  A dict is the sequence of its items.                *)

Keys(d) == {d[i][1] : i \in DOMAIN d}

\* d[key]
Get(d, key) == d[CHOOSE i \in DOMAIN d : d[i][1] = key][2]

\* d[key] = value
DictPut(d, key, value) ==
    IF key \in Keys(d)
    THEN [i \in DOMAIN d |-> IF d[i][1] = key THEN <<key, value>> ELSE d[i]]
    ELSE Append(d, <<key, value>>)

AssignCasenames ==
    /\ At("casenames")
    /\ Advance
    /\ casenames' = Cur.path
    /\ UNCHANGED <<colors, markers, nkpp, it, dataset, price, links, done, nb, prog, m, heap,
                   cfg, cfgs, labels, sims, task, runlog, workdirs>>

\* the dicts after name = value, as <<labels, colors, markers>>
Bound(name, value) ==
    << IF name = "labels" THEN value ELSE labels,
       IF name = "colors" THEN value ELSE colors,
       IF name = "markers" THEN value ELSE markers >>

AssignDict ==
    /\ At("dict")
    /\ Advance
    /\ labels' = Bound(Cur.s, Cur.path)[1]
    /\ colors' = Bound(Cur.s, Cur.path)[2]
    /\ markers' = Bound(Cur.s, Cur.path)[3]
    /\ UNCHANGED <<casenames, nkpp, it, dataset, price, links, done, nb, prog, m, heap,
                   cfg, cfgs, sims, task, runlog, workdirs>>

AssignNkpp ==
    /\ At("nkpp")
    /\ Advance
    /\ nkpp' = Len(casenames)
    /\ UNCHANGED <<casenames, colors, markers, it, dataset, price, links, done, nb, prog, m,
                   heap, cfg, cfgs, labels, sims, task, runlog, workdirs>>

AppendCasename ==
    /\ At("appendcase")
    /\ Advance
    /\ casenames' = Append(casenames, Cur.s)
    /\ UNCHANGED <<colors, markers, nkpp, it, dataset, price, links, done, nb, prog, m, heap,
                   cfg, cfgs, labels, sims, task, runlog, workdirs>>

\* (mutation of Index) casenames[i]: the offset nkpp is left out
Index_NoOffset(st) == IF st.op = "putat" THEN st.n + 1 ELSE Len(casenames)

\* the position in casenames (counted from 1) that the statement indexes
Index(st) == IF st.op = "putat" THEN st.n + nkpp + 1 ELSE Len(casenames)

\* d[casenames[...]] = value
PutItem ==
    /\ state = "running" /\ Cur.op \in {"putat", "putlast"}
    /\ IF Index(Cur) \in DOMAIN casenames
       THEN LET d == CASE Cur.s = "labels" -> labels
                       [] Cur.s = "colors" -> colors
                       [] Cur.s = "markers" -> markers
                new == DictPut(d, casenames[Index(Cur)], Cur.path[1])
            IN  /\ Advance
                /\ labels' = Bound(Cur.s, new)[1]
                /\ colors' = Bound(Cur.s, new)[2]
                /\ markers' = Bound(Cur.s, new)[3]
       ELSE /\ Raise("IndexError")
            /\ UNCHANGED <<labels, colors, markers>>
    /\ UNCHANGED <<casenames, nkpp, it, dataset, price, links, done, nb, prog, m, heap,
                   cfg, cfgs, sims, task, runlog, workdirs>>

\* os.symlink unless os.path.islink: every case of the list is a link
\* afterwards, whether it was one before or is made now
Symlink ==
    /\ At("symlink")
    /\ Advance
    /\ links' = [i \in DOMAIN Cur.path |->
                   << casedir \o "/" \o Cur.path[i],
                      casedir0 \o "/" \o Cur.path[i] >>]
    /\ UNCHANGED <<plotVars, done, nb, prog, m, heap, cfg, cfgs, labels, sims, task,
                   runlog, workdirs>>

Show ==
    /\ At("show")
    /\ Advance
    /\ UNCHANGED <<plotVars, links, done, nb, prog, m, heap, cfg, cfgs, labels, sims,
                   task, runlog, workdirs>>

ClearSims ==
    /\ At("resetsims")
    /\ Advance
    /\ sims' = <<>>
    /\ UNCHANGED <<plotVars, links, done, nb, prog, m, heap, cfg, cfgs, labels, task,
                   runlog, workdirs>>

ClearDataset ==
    /\ At("resetdataset")
    /\ Advance
    /\ dataset' = <<>>
    /\ UNCHANGED <<casenames, colors, markers, nkpp, it, price, links, done, nb, prog, m, heap,
                   cfg, cfgs, labels, sims, task, runlog, workdirs>>

\* the variables the notebook reads from a loaded output
OutputVars == {"NN", "u_taus", "time"}

\* one iteration of the load loop: the output of the case is missing, or
\* is loaded with the variables it holds
LoadCase ==
    /\ At("load")
    /\ it < Len(casenames)
    /\ LET case == casenames[it + 1]
       IN  /\ sims' = DictPut(sims, case, casedir \o "/" \o case)
           /\ \E out \in {{}} \cup {OutputVars, OutputVars \ {"NN"}} :
                IF out = {}
                THEN Raise("load_data") /\ UNCHANGED <<dataset, it>>
                ELSE /\ dataset' = DictPut(dataset, case, out)
                     /\ it' = it + 1
                     /\ UNCHANGED <<pc, state, err>>
    /\ UNCHANGED <<casenames, colors, markers, nkpp, price, links, done, nb, prog, m, heap,
                   cfg, cfgs, labels, task, runlog, workdirs>>

LoadDone ==
    /\ At("load")
    /\ it = Len(casenames)
    /\ Advance
    /\ it' = 0
    /\ UNCHANGED <<casenames, colors, markers, nkpp, dataset, price, links, done, nb, prog, m,
                   heap, cfg, cfgs, labels, sims, task, runlog, workdirs>>

-----------------------------------------------------------------------------
(* The arithmetic of the Price cell, exact: a value is the non-negative    *)
(* real (n/d)^(1/2^k), which is what sqrt, * and / make of rationals.      *)

Rad(n, d, k) == [n |-> n, d |-> d, k |-> k]

Rat(n, d) == Rad(n, d, 0)

Max(a, b) == IF a < b THEN b ELSE a

RECURSIVE Pow(_, _)
Pow(x, e) == IF e = 0 THEN 1 ELSE x * Pow(x, e - 1)

\* x written with the root 2^k, k >= x.k
Lift(x, k) ==
    Rad(Pow(x.n, Pow(2, k - x.k)), Pow(x.d, Pow(2, k - x.k)), k)

\* np.sqrt(x)
sqrt(x) == Rad(x.n, x.d, x.k + 1)

\* x * y
Times(x, y) ==
    LET k == Max(x.k, y.k)
    IN  Rad(Lift(x, k).n * Lift(y, k).n, Lift(x, k).d * Lift(y, k).d, k)

\* x / y, y > 0
Quot(x, y) ==
    LET k == Max(x.k, y.k)
    IN  Rad(Lift(x, k).n * Lift(y, k).d, Lift(x, k).d * Lift(y, k).n, k)

\* x <= y
Leq(x, y) ==
    LET k == Max(x.k, y.k)
    IN  Lift(x, k).n * Lift(y, k).d <= Lift(y, k).n * Lift(x, k).d

\* x = y as numbers
Same(x, y) == Leq(x, y) /\ Leq(y, x)

\* the output of the first case holds at most this many time records
MaxRecords == 4

\* N^2 where the water column is stably stratified: positive
NNValues == {1, 2}

\* an output with T records, one per output interval from `first` on: NN on
\* the interfaces from the bottom (undisturbed) to the surface, and the
\* friction velocity of the constant wind stress
Output(T, first, top, u) ==
    [time |-> [i \in 1..T |-> first + (i - 1)],
     NN |-> [i \in 1..T |-> <<1, top[i]>>],
     u_taus |-> [i \in 1..T |-> u]]

\* what the output of the first case can hold; the cell indexes record 2,
\* so an output has 3 records at least
Outputs ==
    UNION {{Output(T, first, top, u) :
              first \in 0..1, top \in [1..T -> NNValues], u \in 1..2} :
           T \in 3..MaxRecords}

\* (mutation of mld_val) one square root of 2 Rv instead of two
mld_val_OneRoot(ustar, sec, N0) ==
    Times(Times(sqrt(Times(Rat(2, 1), Rat(6, 10))), ustar),
          sqrt(Quot(sec, N0)))

\* np.sqrt(np.sqrt(2.*0.6))*ustar*np.sqrt(sec/N0), for one element of sec
mld_val(ustar, sec, N0) ==
    Times(Times(sqrt(sqrt(Times(Rat(2, 1), Rat(6, 10)))), ustar),
          sqrt(Quot(sec, N0)))

\* the names bound by the cell; python's indices count from 0, and -1 is
\* the last
PriceNames(data0) ==
    LET N0 == sqrt(Rat(data0.NN[2 + 1][Len(data0.NN[2 + 1])], 1))
        ustar == Rat(data0.u_taus[Len(data0.u_taus)], 1)
        sec == [i \in DOMAIN data0.time |-> data0.time[i] - data0.time[1]]
        mld == [i \in DOMAIN sec |-> mld_val(ustar, Rat(sec[i], 1), N0)]
    IN  [bound |-> TRUE, data0 |-> data0, N0 |-> N0, ustar |-> ustar,
         sec |-> sec, mld_val |-> mld,
         mld_p79 |-> [time |-> data0.time, values |-> mld]]

\* data0 = dataset[casenames[0]]; N0, ustar, sec, mld_val, mld_p79.  What
\* the loaded output holds is chosen here, where it is first read.
Price ==
    /\ At("price")
    /\ IF /\ casenames # <<>>
          /\ casenames[1] \in Keys(dataset)
          /\ OutputVars \subseteq Get(dataset, casenames[1])
       THEN /\ Advance
            /\ \E data0 \in Outputs : price' = PriceNames(data0)
       ELSE /\ Raise("AttributeError")
            /\ price' = price
    /\ UNCHANGED <<casenames, colors, markers, nkpp, it, dataset, links, done,
                   nb, prog, m, heap, cfg, cfgs, labels, sims, task, runlog,
                   workdirs>>

\* one iteration of the figure loop: dataset[case], data.NN, colors[case],
\* markers[case], labels[case]
FigureCase ==
    /\ At("figure")
    /\ it < Len(casenames)
    /\ LET case == casenames[it + 1]
       IN  IF ~ (case \in Keys(dataset) /\ case \in Keys(colors)
                 /\ case \in Keys(markers) /\ case \in Keys(labels))
           THEN Raise("KeyError") /\ it' = it
           ELSE IF "NN" \notin Get(dataset, case)
           THEN Raise("AttributeError") /\ it' = it
           ELSE it' = it + 1 /\ UNCHANGED <<pc, state, err>>
    /\ UNCHANGED <<casenames, colors, markers, nkpp, dataset, price, links, done, nb, prog, m,
                   heap, cfg, cfgs, labels, sims, task, runlog, workdirs>>

FigureDone ==
    /\ At("figure")
    /\ it = Len(casenames)
    /\ Advance
    /\ it' = 0
    /\ UNCHANGED <<casenames, colors, markers, nkpp, dataset, price, links, done, nb, prog, m,
                   heap, cfg, cfgs, labels, sims, task, runlog, workdirs>>

-----------------------------------------------------------------------------
(* m.run_batch(configs, labels, nproc): one simulator invocation per       *)
(* (configuration, label) pair, in a pool of nproc processes; the call     *)
(* ends when every invocation has ended.                                   *)

Running == {i \in DOMAIN task : task[i] = "running"}

Pending == {i \in DOMAIN task : task[i] = "pending"}

Failed == {i \in DOMAIN task : task[i] = "failed"}

Ended == {i \in DOMAIN task : task[i] \in {"ok", "failed"}}

\* (mutation of Pairs) the last pair is left out
Pairs_DropLast(configs, labs) == 1..(Min(Len(configs), Len(labs)) - 1)

\* the pairs run_batch submits: zip(configs, labels)
Pairs(configs, labs) == 1..Min(Len(configs), Len(labs))

\* the call: the pairs are queued
Submit ==
    /\ At("run")
    /\ state' = "batch"
    /\ task' = [i \in Pairs(cfgs, labels) |-> "pending"]
    /\ runlog' = <<>>
    /\ UNCHANGED <<plotVars, links, done, nb, prog, pc, err, m, heap, cfg, cfgs, labels, sims, workdirs>>

\* (mutation of SlotFree) a process that ran an invocation is not reused
SlotFree_NoReuse(nproc) == Cardinality(Running) + Cardinality(Ended) < nproc

\* a pool process is free to take the next queued pair
SlotFree(nproc) == Cardinality(Running) < nproc

\* the next queued pair
NextQueued == CHOOSE i \in Pending : \A j \in Pending : i <= j

\* a free pool process takes the next pair and invokes the simulator in the
\* pair's working directory
Start ==
    /\ state = "batch"
    /\ Pending # {}
    /\ SlotFree(Cur.n)
    /\ LET i == NextQueued
           dir == WorkDir(m, labels[i])
       IN  /\ task' = [task EXCEPT ![i] = "running"]
           /\ runlog' = Append(runlog, [i |-> i, config |-> cfgs[i],
                                        label |-> labels[i], dir |-> dir])
           /\ workdirs' = Put(workdirs, dir, Count(workdirs, dir) + 1)
    /\ UNCHANGED <<plotVars, links, done, nb, prog, pc, state, err, m, heap, cfg, cfgs, labels, sims>>

\* an invocation ends with exit status rc
Finish(i, rc) ==
    /\ state = "batch"
    /\ i \in Running
    /\ rc # 0 => Cardinality(Failed) < MaxFailures
    /\ task' = [task EXCEPT ![i] = IF rc = 0 THEN "ok" ELSE "failed"]
    /\ UNCHANGED <<plotVars, links, done, nb, prog, pc, state, err, m, heap, cfg, cfgs, labels, sims,
                   runlog, workdirs>>

\* (mutation of Joined) the call ends with the first invocation that ends
Joined_First == Ended # {}

\* the join: every submitted pair has ended
Joined == Ended = DOMAIN task

\* run_batch returns the simulations, and the cell binds them to sims
Return ==
    /\ state = "batch"
    /\ Joined
    /\ Failed = {}
    /\ sims' = [i \in DOMAIN task |-> WorkDir(m, labels[i])]
    /\ Advance
    /\ UNCHANGED <<plotVars, links, done, nb, prog, m, heap, cfg, cfgs, labels, task, runlog, workdirs>>

\* run_batch raises what the failed invocation raised; sims stays unbound
Throw ==
    /\ state = "batch"
    /\ Joined
    /\ Failed # {}
    /\ Raise("simulator")
    /\ UNCHANGED <<plotVars, links, done, nb, prog, m, heap, cfg, cfgs, labels, sims, task, runlog, workdirs>>

Next ==
    \/ \E n \in Notebooks : Open(n)
    \/ Import
    \/ CreateModel
    \/ Environ
    \/ Build
    \/ InitConfig
    \/ SetField
    \/ ClearCfgs
    \/ ClearLabels
    \/ AppendConfig
    \/ AppendLbl
    \/ Submit
    \/ Start
    \/ \E i \in DOMAIN task, rc \in {0, 1} : Finish(i, rc)
    \/ Return
    \/ Throw
    \/ AssignCasenames
    \/ AssignDict
    \/ AssignNkpp
    \/ AppendCasename
    \/ PutItem
    \/ Symlink
    \/ Show
    \/ ClearSims
    \/ ClearDataset
    \/ LoadCase
    \/ LoadDone
    \/ Price
    \/ FigureCase
    \/ FigureDone

Spec == Init /\ [][Next]_vars

SessionNext == Next \/ \E n \in Notebooks : Reopen(n)

Session == Init /\ [][SessionNext]_vars

\* Spec with the scheduling of run_batch: a free pool process takes the next
\* queued pair, a running invocation ends, and the call ends after the join
FairSpec ==
    /\ Spec
    /\ WF_vars(Start)
    /\ WF_vars(\E i \in DOMAIN task, rc \in {0, 1} : Finish(i, rc))
    /\ WF_vars(Return)
    /\ WF_vars(Throw)

-----------------------------------------------------------------------------
(* Properties.                                                             *)

InBatch == state = "batch"

\* run_batch has been called (and may have ended)
Called == task # <<>>

\* run_batch has ended, by returning or by raising
BatchOver == Called /\ Over

Invocations(i) == {a \in DOMAIN runlog : runlog[a].i = i}

\* C1: run_batch returns, and sims is bound, only after every simulator
\* invocation of the batch has ended: whenever sims is bound, all 4 / 10 / 4
\* pairs of the batch were started and none is pending or running; and
\* while the call is in progress sims is unbound.
C1_ResultsAfterJoin ==
    /\ InBatch => sims = <<>>
    /\ (nb \in RunNotebooks /\ sims # <<>>) =>
         /\ Pending = {} /\ Running = {}
         /\ Len(runlog) = Len(task)
         /\ Len(sims) = Len(task)
         /\ Len(task) = CASE nb = "run_Entrainment" -> 4
                           [] nb = "run_Entrainment-KC04" -> 10
                           [] nb = "run_OSMOSIS-Winter-KC04" -> 4

\* the 10-pair batch on 4 processes has returned its results
C1_Witness ==
    nb = "run_Entrainment-KC04" /\ state = "finished" /\ Len(sims) = 10

\* C2: within one run_batch call every (configuration, label) pair of the
\* batch is passed to the simulator exactly once: an invocation is of the
\* pair at one position of cfgs and labels, no pair is invoked twice (also
\* not after it ended, with either exit status), and when the call has
\* ended every pair of cfgs and labels has been invoked.
C2_EachPairOnce ==
    /\ \A a \in DOMAIN runlog :
         /\ runlog[a].i \in DOMAIN cfgs /\ runlog[a].i \in DOMAIN labels
         /\ runlog[a].config = cfgs[runlog[a].i]
         /\ runlog[a].label = labels[runlog[a].i]
    /\ \A i \in DOMAIN task :
         Cardinality(Invocations(i)) = IF task[i] = "pending" THEN 0 ELSE 1
    /\ BatchOver =>
         /\ \A i \in DOMAIN cfgs : Cardinality(Invocations(i)) = 1
         /\ \A i \in DOMAIN labels : Cardinality(Invocations(i)) = 1

\* a batch has ended in which one invocation failed and a later one ran
C2_Witness ==
    /\ BatchOver /\ Len(runlog) = 10
    /\ \E i \in Failed : \E j \in DOMAIN task : j > i /\ task[j] = "ok"

\* C3: at most nproc simulator processes of a batch run at the same time:
\* at most 4 in the Entrainment and Entrainment-KC04 batches, at most 2 in
\* the OSMOSIS-Winter-KC04 batch.
C3_AtMostNproc ==
    Cardinality(Running) <= CASE nb = "run_Entrainment" -> 4
                              [] nb = "run_Entrainment-KC04" -> 4
                              [] nb = "run_OSMOSIS-Winter-KC04" -> 2
                              [] OTHER -> 0

\* the pool is full and pairs are waiting
C3_Witness ==
    /\ nb = "run_OSMOSIS-Winter-KC04"
    /\ Cardinality(Running) = 2 /\ Pending # {}

\* the labels each notebook passes to run_batch, as C4 lists them
C4_Expected ==
    CASE nb = "run_Entrainment" ->
           {"GLS-C01A", "KPP-CVMix", "KPPLT-VR12", "KPPLT-LF17"}
      [] nb = "run_Entrainment-KC04" ->
           {"KC04-MY-e6-1.0", "KC04-MY-e6-4.0", "KC04-MY-e6-6.0",
            "KC04-MY-e6-7.0", "KC04-k-omega-c4-0.150",
            "KC04-k-omega-c4-0.300", "KC04-k-omega-c4-0.555",
            "KC04-k-omega-c4-1.200", "KC04-MY-NS", "KC04-k-omega-NS"}
      [] nb = "run_OSMOSIS-Winter-KC04" ->
           {"KC04-MY", "KC04-k-omega", "KC04-MY-NS", "KC04-k-omega-NS"}

\* C4: in a top-to-bottom execution the labels are pairwise distinct at
\* every moment, and the labels passed to run_batch are exactly the listed
\* ones (4, 10 and 4 of them).
C4_LabelsDistinct ==
    /\ nb \in RunNotebooks =>
         \A i, j \in DOMAIN labels : labels[i] = labels[j] => i = j
    /\ Called => Range(labels) = C4_Expected

\* run_batch was called with the ten labels of Entrainment-KC04
C4_Witness ==
    nb = "run_Entrainment-KC04" /\ Called /\ Len(labels) = 10

\* C5: no two simulator invocations, of one batch or of different batches,
\* use the same working directory: over a session that executes the
\* notebooks, every working directory has been used by at most one
\* invocation, also those of KC04-MY-NS and KC04-k-omega-NS, which the
\* Entrainment-KC04 and the OSMOSIS-Winter-KC04 batch both run.
C5_OwnWorkDir ==
    /\ \A d \in DOMAIN workdirs : workdirs[d] <= 1
    /\ \A a, b \in DOMAIN runlog : runlog[a].dir = runlog[b].dir => a = b

\* the three batches have run in one session, and KC04-MY-NS was run by
\* both the Entrainment-KC04 and the OSMOSIS-Winter-KC04 batch
C5_Witness ==
    /\ done = RunNotebooks /\ BatchOver
    /\ Cardinality(DOMAIN workdirs) = 18
    /\ WorkDir(name_KC04, "KC04-MY-NS") \in DOMAIN workdirs
    /\ WorkDir(name_OSMOSIS, "KC04-MY-NS") \in DOMAIN workdirs

\* the objects of the snapshots and of cfg are pairwise disjoint
C6_NoSharing ==
    /\ \A i, j \in DOMAIN cfgs :
         i # j => Objects(heap, cfgs[i]) \cap Objects(heap, cfgs[j]) = {}
    /\ \A i \in DOMAIN cfgs :
         Objects(heap, cfgs[i]) \cap Objects(heap, cfg) = {}

\* a step that changes the heap or cfgs leaves the value of every stored
\* snapshot as it was, a new snapshot has the value cfg has at the append,
\* and no object is shared afterwards
C6_Frame ==
    (heap' # heap \/ cfgs' # cfgs) =>
      /\ C6_NoSharing'
      /\ \A i \in DOMAIN cfgs :
           (i \in DOMAIN cfgs' /\ cfgs'[i] = cfgs[i])
             => Flat(heap', cfgs[i]) = Flat(heap, cfgs[i])
      /\ Len(cfgs') = Len(cfgs) + 1
           => Flat(heap', cfgs'[Len(cfgs')]) = Flat(heap, cfg)

\* C6: mutating cfg after cfgs.append(copy.deepcopy(cfg)) never changes a
\* snapshot already in cfgs: each snapshot has, from its append on, the
\* value cfg had at that append, at every nesting depth, and no dict
\* object is shared between two snapshots or between a snapshot and cfg.
C6_SnapshotsIsolated == [][C6_Frame]_vars

\* cfg was changed below the top level after a snapshot of it was stored
C6_Witness ==
    /\ Len(cfgs) >= 2
    /\ GetItem(heap, cfg, <<"turbulence", "turb_method">>)
         # GetItem(heap, cfgs[1], <<"turbulence", "turb_method">>)
    /\ Flat(heap, cfgs[1]) # Flat(heap, cfgs[2])

\* the sizes of the three batches, as C7 gives them
C7_Size ==
    CASE nb = "run_Entrainment" -> 4
      [] nb = "run_Entrainment-KC04" -> 10
      [] nb = "run_OSMOSIS-Winter-KC04" -> 4

\* cfgs and labels have equal length, except between the two appends of a
\* pair, where the label of the newest snapshot is the next statement
C7_Lengths ==
    /\ nb \in RunNotebooks =>
         IF state = "running" /\ pc > 1 /\ prog[pc - 1].op = "appendcfg"
         THEN Len(cfgs) = Len(labels) + 1 /\ Cur.op = "appendlabel"
         ELSE Len(cfgs) = Len(labels)
    /\ Called => Len(cfgs) = C7_Size /\ Len(labels) = C7_Size
                  /\ DOMAIN task = DOMAIN cfgs

\* a label is appended at the position of the snapshot taken just before
C7_Step ==
    (nb \in RunNotebooks /\ labels' # labels /\ labels' # <<>>) =>
      /\ SubSeq(labels', 1, Len(labels)) = labels
      /\ Len(labels') = Len(labels) + 1
      /\ Len(labels') = Len(cfgs)
      /\ prog[pc - 1].op = "appendcfg"

\* C7: in a top-to-bottom execution cfgs and labels have equal length
\* after every append pair and at the call of run_batch (4, 10 and 4
\* entries), and labels[i] is the label appended immediately after the
\* snapshot cfgs[i].
C7_PairedByPosition == [][C7_Step]_vars /\ []C7_Lengths

\* run_batch was called on ten snapshots and ten labels
C7_Witness ==
    nb = "run_Entrainment-KC04" /\ InBatch /\ Len(cfgs) = 10 /\ Len(labels) = 10

\* the statement kind that raises each error
C8_Raiser ==
    [environ |-> {"model"}, build |-> {"build"}, init_config |-> {"init"},
     simulator |-> {"run"}, load_data |-> {"load"},
     KeyError |-> {"set", "setdict", "setlist", "figure"},
     IndexError |-> {"putat", "putlast"},
     AttributeError |-> {"price", "figure"}]

\* an error is pending exactly when the execution has stopped, at the
\* statement that raised it; a failed invocation was invoked once, and the
\* call that ran it has raised; an execution that finished met no failure
C8_Stopped ==
    /\ (err # "") <=> (state = "error")
    /\ state = "error" => err \in DOMAIN C8_Raiser /\ Cur.op \in C8_Raiser[err]
    /\ \A i \in Failed : Cardinality(Invocations(i)) = 1
    /\ (Failed # {} /\ ~InBatch) =>
         state = "error" /\ err = "simulator" /\ sims = <<>>
    /\ (state \in {"running", "finished"} /\ pc > 2 /\ nb \in RunNotebooks)
         => m # ""
    /\ (state = "finished" /\ nb \in RunNotebooks) =>
         /\ cfg # 0 /\ Failed = {} /\ Ended = DOMAIN cfgs
         /\ Len(sims) = Len(cfgs)
    /\ (state = "finished" /\ nb \notin RunNotebooks) =>
         \A c \in Range(casenames) :
           c \in Keys(dataset) /\ "NN" \in Get(dataset, c)

\* after an error no statement is executed, and the step that raises
\* leaves the position and the invocations as they are
C8_Step ==
    /\ state # "error"
    /\ state' = "error" => pc' = pc /\ runlog' = runlog /\ task' = task

\* C8: a failing step (environment file missing, build failed, simulator
\* exit status non-zero, output variable missing) is not caught and not
\* retried: the error stops the execution at the failing statement, the
\* failed configuration has been invoked once, and no later statement
\* of the execution runs.
C8_ErrorsPropagate == [][C8_Step]_vars /\ []C8_Stopped

\* a simulator invocation of the ten-pair batch exited non-zero and the
\* run_batch cell has raised
C8_Witness ==
    /\ nb = "run_Entrainment-KC04" /\ state = "error" /\ err = "simulator"
    /\ Failed # {} /\ Ended = DOMAIN cfgs /\ sims = <<>>

\* C9: when every simulator invocation terminates, every run_batch call
\* eventually ends with all pairs of the batch completed, also when the batch
\* is larger than the pool; it returns the results when no invocation
\* failed.
C9_BatchTerminates ==
    InBatch ~> /\ BatchOver
               /\ Ended = DOMAIN task /\ DOMAIN task = DOMAIN cfgs
               /\ Failed = {} => state = "finished" /\ Len(sims) = Len(cfgs)

\* the last of the ten queued pairs, which had to wait for a pool process,
\* has completed and the call has ended
C9_Witness ==
    /\ nb = "run_Entrainment-KC04" /\ BatchOver
    /\ Len(task) = 10 /\ task[10] = "ok"

\* the snapshot stored with a label
Labelled(l) == cfgs[CHOOSE i \in DOMAIN labels : labels[i] = l]

C10_Is(l, path, v) == GetItem(heap, Labelled(l), path) = Str(v)

C10_Langmuir == <<"cvmix", "surface_layer", "kpp", "langmuir_method">>

\* C10: run_Entrainment passes exactly four configurations to run_batch:
\* GLS-C01A is the second-order closure (gls length scale, weak_eq_kb_eq,
\* canuto-a), and KPP-CVMix, KPPLT-VR12, KPPLT-LF17 are cvmix with
\* langmuir_method none, lwf16 and lf17.
C10_FourSchemes ==
    (nb = "run_Entrainment" /\ Called) =>
      /\ Len(cfgs) = 4
      /\ labels = <<"GLS-C01A", "KPP-CVMix", "KPPLT-VR12", "KPPLT-LF17">>
      /\ C10_Is("GLS-C01A", <<"turbulence", "turb_method">>, "second_order")
      /\ C10_Is("GLS-C01A", <<"turbulence", "len_scale_method">>, "gls")
      /\ C10_Is("GLS-C01A", <<"turbulence", "scnd", "method">>, "weak_eq_kb_eq")
      /\ C10_Is("GLS-C01A", <<"turbulence", "scnd", "scnd_coeff">>, "canuto-a")
      /\ C10_Is("KPP-CVMix", <<"turbulence", "turb_method">>, "cvmix")
      /\ C10_Is("KPPLT-VR12", <<"turbulence", "turb_method">>, "cvmix")
      /\ C10_Is("KPPLT-LF17", <<"turbulence", "turb_method">>, "cvmix")
      /\ C10_Is("KPP-CVMix", C10_Langmuir, "none")
      /\ C10_Is("KPPLT-VR12", C10_Langmuir, "lwf16")
      /\ C10_Is("KPPLT-LF17", C10_Langmuir, "lf17")

\* the four configurations of run_Entrainment are being run
C10_Witness ==
    nb = "run_Entrainment" /\ InBatch /\ Cardinality(Running) = 4

\* the notebooks whose header gives 0.3 m and 10 s
C11_Notebooks == {"run_Entrainment", "run_Entrainment-KC04"}

\* the setup cell is behind: cfgs = [] is the statement that follows it
C11_SetupDone ==
    /\ nb \in C11_Notebooks
    /\ state # "idle"
    /\ \E i \in 1..pc : prog[i].op = "resetcfgs"

\* depth / nlev = 30.0 / 100, as 10 * depth = 3 * nlev, and dt = 10
C11_Resolved(c) ==
    LET depth == GetItem(heap, c, <<"location", "depth">>)
        nlev == GetItem(heap, c, <<"grid", "nlev">>)
        dt == GetItem(heap, c, <<"time", "dt">>)
    IN  /\ depth = Num(30, 0) /\ nlev = Num(100, 0) /\ dt = Num(10, 0)
        /\ 10 * Scaled(depth, 0) = 3 * Scaled(nlev, 0)

\* C11: in the Entrainment and the Entrainment-KC04 notebook every snapshot
\* has depth 30.0, nlev 100 (0.3 m per level: 10 * depth = 3 * nlev) and
\* dt 10, and from the end of the setup cell on cfg keeps these values:
\* no later assignment changes them.
C11_Resolution ==
    C11_SetupDone =>
      /\ C11_Resolved(cfg)
      /\ \A i \in DOMAIN cfgs : C11_Resolved(cfgs[i])

\* the ten snapshots of Entrainment-KC04 are passed to run_batch, the last
\* one taken after the assignments that turn Stokes drift off
C11_Witness ==
    /\ nb = "run_Entrainment-KC04" /\ Called /\ Len(cfgs) = 10
    /\ GetItem(heap, cfgs[10], <<"grid", "nlev">>) = Num(100, 0)
    /\ GetItem(heap, cfgs[10], <<"waves", "stokes_drift", "us", "method">>)
         = Str("off")

\* the plot notebook is past its case-definition cell: the next cell, which
\* displays labels, is reached
C12_CellDone ==
    /\ nb = "plot_Entrainment-KC04-MY"
    /\ state # "idle"
    /\ \E i \in 1..pc : prog[i].op = "show"

C12_Casenames ==
    << "KPP-CVMix", "KPPLT-LF17", "KC04-MY-e6-1.0", "KC04-MY-e6-4.0",
       "KC04-MY-e6-6.0", "KC04-MY-e6-7.0", "KC04-MY-NS" >>

\* the recorded output of the cell that displays labels
C12_Legend ==
    << <<"KPP-CVMix", "KPP-CVMix">>, <<"KPPLT-LF17", "KPPLT-LF17">>,
       <<"KC04-MY-e6-1.0", "$e_6$=1.0">>, <<"KC04-MY-e6-4.0", "$e_6$=4.0">>,
       <<"KC04-MY-e6-6.0", "$e_6$=6.0">>, <<"KC04-MY-e6-7.0", "$e_6$=7.0">>,
       <<"KC04-MY-NS", "w/o Stokes">> >>

\* the name appended by the last casenames.append executed before pc
C12_Appended ==
    prog[CHOOSE j \in 1..(pc - 1) :
           /\ prog[j].op = "appendcase"
           /\ \A k \in (j + 1)..(pc - 1) : prog[k].op # "appendcase"].s

\* C12: after the case-definition cell of the plot notebook casenames is
\* the 7 listed names in order and labels maps each to the displayed legend
\* text; and whenever a statement of the loop indexes casenames[i+nkpp], the
\* index exists and it denotes the name appended in that iteration.
C12_CaseLegend ==
    /\ C12_CellDone => casenames = C12_Casenames /\ labels = C12_Legend
    /\ (state = "running" /\ Cur.op = "putat") =>
         /\ Index(Cur) \in DOMAIN casenames
         /\ Index(Cur) = Len(casenames)
         /\ casenames[Index(Cur)] = C12_Appended

\* the cell that displays labels has run, with the 7 entries
C12_Witness ==
    /\ C12_CellDone /\ state = "running" /\ Cur.op = "resetsims"
    /\ Len(labels) = 7 /\ Get(labels, "KC04-MY-e6-7.0") = "$e_6$=7.0"

\* C13: the N0 of the Price cell is the initial buoyancy frequency: the
\* square root of the first case's NN at the first time record (on one of
\* the interfaces).
C13_InitialN0 ==
    price.bound =>
      \E k \in DOMAIN price.data0.NN[1] :
        Same(price.N0, sqrt(Rat(price.data0.NN[1][k], 1)))

\* x^4 of a value with a root of degree 4 at most, as <<numerator,
\* denominator>>
C14_Fourth(x) == << Lift(x, 2).n, Lift(x, 2).d >>

\* h^4 * N0^2 = 2 Rv * ustar^4 * t^2 with Rv = 6/10, for integers ustar, t
C14_Law(h, ustar, t, N0) ==
    /\ h.k <= 2 /\ N0.k <= 1 /\ ustar.k = 0 /\ ustar.d = 1
    /\ C14_Fourth(h)[1] * Lift(N0, 1).n * 10
         = 2 * 6 * Pow(ustar.n, 4) * Pow(t, 2) * C14_Fourth(h)[2] * Lift(N0, 1).d

\* C14: the predicted mixed layer depth has one value per time record of
\* the first case, the value at record t (seconds since the first record)
\* is (2 Rv)^(1/4) ustar (t / N0)^(1/2) with Rv = 0.6, it is 0 at the first
\* record, and it does not decrease from one record to the next.
C14_Predicted ==
    price.bound =>
      LET time == price.data0.time
          h == price.mld_p79.values
      IN  /\ DOMAIN h = DOMAIN time
          /\ price.mld_p79.time = time
          /\ \A i \in DOMAIN h :
               C14_Law(h[i], price.ustar, time[i] - time[1], price.N0)
          /\ Same(h[1], Rat(0, 1))
          /\ \A i, j \in DOMAIN h : i <= j => Leq(h[i], h[j])

\* a prediction over four records that grows, with N0 other than 1
C14_Witness ==
    /\ price.bound /\ Len(price.mld_val) = 4
    /\ ~ Leq(price.mld_val[4], price.mld_val[3])
    /\ ~ Same(price.N0, Rat(1, 1))
    /\ price.data0.time[1] = 1

\* the notebooks stored in run_Entrainment-KC04.ipynb
C15_Notebooks == {"run_Entrainment-KC04", "run_OSMOSIS-Winter-KC04"}

\* the label ends in '-NS'
C15_EndsNS(l) == \E p \in {"KC04-MY", "KC04-k-omega"} : l = p \o "-NS"

\* waves.stokes_drift.{us,vs,dusdz,dvsdz}.method of a configuration
C15_Stokes(c) ==
    [f \in {"us", "vs", "dusdz", "dvsdz"} |->
       GetItem(heap, c, <<"waves", "stokes_drift", f, "method">>)]

C15_Off == [f \in {"us", "vs", "dusdz", "dvsdz"} |-> Str("off")]

C15_On ==
    [us |-> Str("exponential"), vs |-> Str("exponential"),
     dusdz |-> Str("us"), dvsdz |-> Str("vs")]

\* C15: in both batches of run_Entrainment-KC04.ipynb a snapshot has the
\* four Stokes drift methods 'off' exactly if its label ends in '-NS', and
\* every other snapshot has 'exponential', 'exponential', 'us', 'vs', also
\* after the 'off' assignments to cfg.
C15_StokesOffIffNS ==
    nb \in C15_Notebooks =>
      \A i \in DOMAIN cfgs \cap DOMAIN labels :
        /\ C15_Stokes(cfgs[i]) = C15_Off <=> C15_EndsNS(labels[i])
        /\ ~ C15_EndsNS(labels[i]) => C15_Stokes(cfgs[i]) = C15_On

\* both kinds of snapshot are passed to run_batch, and cfg has Stokes drift
\* off
C15_Witness ==
    /\ nb = "run_OSMOSIS-Winter-KC04" /\ Called /\ Len(cfgs) = 4
    /\ C15_Stokes(cfg) = C15_Off
    /\ C15_Stokes(cfgs[1]) = C15_On /\ C15_Stokes(cfgs[4]) = C15_Off

\* the labels of the e6 sweep with the value each names
C16_E6 ==
    { <<"KC04-MY-e6-1.0", Num(10, -1)>>, <<"KC04-MY-e6-4.0", Num(40, -1)>>,
      <<"KC04-MY-e6-6.0", Num(60, -1)>>, <<"KC04-MY-e6-7.0", Num(70, -1)>> }

\* the labels of the c4 sweep with the value each names
C16_C4 ==
    { <<"KC04-k-omega-c4-0.150", Num(15, -2)>>,
      <<"KC04-k-omega-c4-0.300", Num(3, -1)>>,
      <<"KC04-k-omega-c4-0.555", Num(555, -3)>>,
      <<"KC04-k-omega-c4-1.200", Num(12, -1)>> }

C16_Has(l, path, v) == GetItem(heap, Labelled(l), path) = v

\* C16: in the Entrainment-KC04 batch the snapshot labelled with an e6
\* holds that e6 with the Mellor-Yamada tke and length scale methods, and
\* the snapshot labelled with a c4 holds that cpsi4 with tke_method 'tke'
\* and len_scale_method 'gls': the value of its own iteration, not the
\* last one of the loop.
C16_SweptValues ==
    (nb = "run_Entrainment-KC04" /\ Called) =>
      /\ \A p \in C16_E6 :
           /\ p[1] \in Range(labels)
           /\ C16_Has(p[1], <<"turbulence", "my", "e6">>, p[2])
           /\ C16_Has(p[1], <<"turbulence", "tke_method">>, Str("mellor_yamada"))
           /\ C16_Has(p[1], <<"turbulence", "len_scale_method">>,
                      Str("mellor_yamada"))
      /\ \A p \in C16_C4 :
           /\ p[1] \in Range(labels)
           /\ C16_Has(p[1], <<"turbulence", "generic", "cpsi4">>, p[2])
           /\ C16_Has(p[1], <<"turbulence", "tke_method">>, Str("tke"))
           /\ C16_Has(p[1], <<"turbulence", "len_scale_method">>, Str("gls"))

\* the batch is running, and cfg itself holds the last values of both loops
C16_Witness ==
    /\ nb = "run_Entrainment-KC04" /\ InBatch /\ Running # {}
    /\ GetItem(heap, cfg, <<"turbulence", "generic", "cpsi4">>) = Num(15, -2)
    /\ GetItem(heap, cfgs[1], <<"turbulence", "my", "e6">>) = Num(10, -1)

\* the four keys waves.stokes_drift.{us,vs,dusdz,dvsdz}.method
StokesMethods ==
    { <<"waves", "stokes_drift", c, "method">> : c \in {"us", "vs", "dusdz", "dvsdz"} }

\* the keys of a configuration with their values, the four Stokes methods
\* left out
ExceptStokes(id) == { pv \in Flat(heap, id) : pv[1] \notin StokesMethods }

\* the keys at which two configurations differ, the four Stokes methods
\* left out
Differing(a, b) ==
    { pv[1] : pv \in (ExceptStokes(a) \ ExceptStokes(b))
                       \cup (ExceptStokes(b) \ ExceptStokes(a)) }

\* C17: the configuration labelled KC04-MY-NS equals, at every key except
\* the four Stokes drift methods, the snapshot KC04-MY-e6-4.0 in the
\* Entrainment-KC04 batch and the snapshot KC04-MY in the
\* OSMOSIS-Winter-KC04 batch.
C17_MYWithoutStokes ==
    /\ (nb = "run_Entrainment-KC04" /\ Called) =>
         Differing(Labelled("KC04-MY-NS"), Labelled("KC04-MY-e6-4.0")) = {}
    /\ (nb = "run_OSMOSIS-Winter-KC04" /\ Called) =>
         Differing(Labelled("KC04-MY-NS"), Labelled("KC04-MY")) = {}

\* C18: in the Entrainment-KC04 batch the configuration labelled
\* KC04-k-omega-NS equals the snapshot KC04-k-omega-c4-0.150 at every key
\* except the four Stokes drift methods.
C18_KOmegaWithoutStokes ==
    (nb = "run_Entrainment-KC04" /\ Called) =>
      Differing(Labelled("KC04-k-omega-NS"), Labelled("KC04-k-omega-c4-0.150")) = {}

\* C19: in the OSMOSIS-Winter-KC04 batch the configuration labelled
\* KC04-k-omega-NS equals the snapshot KC04-k-omega at every key except
\* the four Stokes drift methods.
C19_KOmegaWithoutStokes ==
    (nb = "run_OSMOSIS-Winter-KC04" /\ Called) =>
      Differing(Labelled("KC04-k-omega-NS"), Labelled("KC04-k-omega")) = {}

\* the OSMOSIS batch is running, and the two k-omega snapshots do differ
\* at the Stokes drift methods
C19_Witness ==
    /\ nb = "run_OSMOSIS-Winter-KC04" /\ InBatch /\ Running # {}
    /\ \A p \in StokesMethods :
         /\ GetItem(heap, Labelled("KC04-k-omega-NS"), p) = Str("off")
         /\ GetItem(heap, Labelled("KC04-k-omega"), p) # Str("off")

\* the plot notebook is past its load cell: the cell after it is reached
C20_Loaded ==
    /\ nb = "plot_Entrainment-KC04-MY"
    /\ state # "idle"
    /\ \E i \in 1..Min(pc, Len(prog)) : prog[i].op = "price"

C20_Cases == Range(casenames)

\* C20: once the case-definition and load cells of the plot notebook are
\* done, casenames holds no name twice and labels, colors, markers, sims
\* and dataset each have exactly the names of casenames as keys; the figure
\* loop finds every key it looks up and raises no KeyError.
C20_LookupsHit ==
    /\ C20_Loaded =>
         /\ \A i, j \in DOMAIN casenames : casenames[i] = casenames[j] => i = j
         /\ Keys(labels) = C20_Cases
         /\ Keys(colors) = C20_Cases
         /\ Keys(markers) = C20_Cases
         /\ Keys(sims) = C20_Cases
         /\ Keys(dataset) = C20_Cases
    /\ nb = "plot_Entrainment-KC04-MY" => err # "KeyError"

\* the figure loop has looked up all seven cases
C20_Witness ==
    /\ nb = "plot_Entrainment-KC04-MY"
    /\ At("figure")
    /\ it = Len(casenames)
    /\ Len(casenames) = 7

====
